---- MODULE Spec2Model ----
(***************************************************************************)
(* FeatureExtractor (src/libs/feature_extractor.py): feature-engineering   *)
(* helpers over a pandas DataFrame.                                        *)
(*                                                                         *)
(* A table is [cols, rows]: the set of column names and the sequence of    *)
(* rows, each row a function from cols to cells.  Row labels (the pandas   *)
(* index) and the order of the columns are not modelled.                   *)
(*                                                                         *)
(* A cell is [k, n, s]: its kind, its numeric fields and its text.         *)
(*   "int"      n = <<i>>                                                  *)
(*   "str"      s = the words of the text, joined by single spaces; a text *)
(*              that spells a timestamp carries the numbers it spells in   *)
(*              n = <<year, month, day, hour, minute>> (seconds are read   *)
(*              by no function of the class)                               *)
(*   "datetime" n = <<year, month, day, hour, minute>>                     *)
(*   "date"     n = <<year, month, day>>                                   *)
(*   "nan"      a missing value (NaN / None)                               *)
(*   "nat"      a missing datetime (NaT)                                   *)
(* All cells have the same three fields so that any two can be compared.   *)
(***************************************************************************)
EXTENDS Integers, Sequences, FiniteSets, TLC

VARIABLES
    df,           \* the caller's DataFrame object
    pre,          \* df as it was when the last call was entered
    ret,          \* the table the last call returned (NoTable: none)
    names,        \* the array get_cols_names_below_threshold returned
    op,           \* the last call
    args,         \* its arguments
    err,          \* the exception it raised ("" when it returned)
    budget,       \* calls the caller still makes
    predictions,  \* get_true_pred_perc's arguments
    answers,
    perc          \* its result, the quotient perc[1] / perc[2]

vars == <<df, pre, ret, names, op, args, err, budget, predictions, answers, perc>>

---------------------------------------------------------------------------
(* Bounds *)

MaxRows == 2          \* rows of the caller's table in Spec
MaxCalls == 3         \* calls in a row in Spec
MaxCountRows == 3     \* rows of the table in SpecCount
MaxOutlierRows == 5   \* rows of the table in SpecOutlier
MaxSeasonRows == 2    \* rows of the table in SpecSeason
MaxWeekdayRows == 2   \* rows of the table in SpecWeekday
MaxLen == 4           \* length of predictions and answers in SpecPerc

---------------------------------------------------------------------------
(* Cells and tables *)

Cell(k, n, s) == [k |-> k, n |-> n, s |-> s]
NaN == Cell("nan", <<>>, <<>>)
NaT == Cell("nat", <<>>, <<>>)
Num(i) == Cell("int", <<i>>, <<>>)
Str(words) == Cell("str", <<>>, words)
TimeStr(fields) == Cell("str", fields, <<>>)
Datetime(fields) == Cell("datetime", fields, <<>>)
Date(fields) == Cell("date", fields, <<>>)
Blank == Str(<<"", "">>)   \* the text ' '

IsNull(c) == c.k \in {"nan", "nat"}

Table(cols, rows) == [cols |-> cols, rows |-> rows]
NoTable == Table({}, <<>>)
NoArgs == [column |-> "", time |-> "", delimeter |-> "", up |-> 0, low |-> 0]

NRows(t) == Len(t.rows)
Col(t, name) == [i \in 1..NRows(t) |-> t.rows[i][name]]

\* df[name] = vals: the column is added, or replaced when df has it.
SetCol(t, name, vals) ==
    Table(t.cols \cup {name},
          [i \in 1..NRows(t) |->
              [c \in t.cols \cup {name} |-> IF c = name THEN vals[i] ELSE t.rows[i][c]]])

\* df[mask]: the rows whose mask is true, in their order.
RECURSIVE Pick(_, _, _)
Pick(rows, mask, i) ==
    IF i > Len(rows) THEN <<>>
    ELSE (IF mask[i] THEN <<rows[i]>> ELSE <<>>) \o Pick(rows, mask, i + 1)

Filter(t, mask) == Table(t.cols, Pick(t.rows, mask, 1))

---------------------------------------------------------------------------
(* How a call ends *)

Ends(o, a, d, r, nm, e) ==
    /\ op' = o /\ args' = a /\ pre' = df /\ df' = d /\ ret' = r
    /\ names' = nm /\ err' = e /\ budget' = budget - 1
    /\ UNCHANGED <<predictions, answers, perc>>

Returns(o, a, d, r) == Ends(o, a, d, r, <<>>, "")
Raises(o, a, d, e) == Ends(o, a, d, NoTable, <<>>, e)

---------------------------------------------------------------------------
(* make_streets_intersections_cols *)

NumWords == {"1500", "100"}      \* words that end in a digit
Words == {"OAK", "ST", "LAGUNA", "Block", "of", "LOMBARD", "MAIN"} \cup NumWords

\* \w+ matches a whole word of the text; \d+ matches the digits a word ends in.
IsW(words, i) == i \in 1..Len(words) /\ words[i] \in Words
IsD(words, i) == i \in 1..Len(words) /\ words[i] \in NumWords

\* (\w+\s\w+\s[/]\s\w+\s\w+): the leftmost match is the capture.
IntersectionAt(words, i) ==
    /\ IsW(words, i) /\ IsW(words, i + 1) /\ words[i + 2] = "/"
    /\ IsW(words, i + 3) /\ IsW(words, i + 4)

\* \d+\s\w+\s\w+\s(\w+\s\w+): the capture is the last two words of the match.
StreetAt(words, i) ==
    /\ IsD(words, i) /\ IsW(words, i + 1) /\ IsW(words, i + 2)
    /\ IsW(words, i + 3) /\ IsW(words, i + 4)

Leftmost(S) == CHOOSE i \in S : \A j \in S : i <= j

\* Series.str.extract on one value: NaN for a missing value and for no match.
ExtractIntersection(c) ==
    IF c.k # "str" THEN NaN
    ELSE LET at == {i \in 1..(Len(c.s) - 4) : IntersectionAt(c.s, i)}
         IN  IF at = {} THEN NaN ELSE Str(SubSeq(c.s, Leftmost(at), Leftmost(at) + 4))

ExtractStreet(c) ==
    IF c.k # "str" THEN NaN
    ELSE LET at == {i \in 1..(Len(c.s) - 4) : StreetAt(c.s, i)}
         IN  IF at = {} THEN NaN ELSE Str(SubSeq(c.s, Leftmost(at) + 3, Leftmost(at) + 4))

\* .fillna(' ')
FillBlank(c) == IF IsNull(c) THEN Blank ELSE c

\* Variant of Concat: the rows where neither pattern matched are dropped.
ConcatDropUnmatched(t, street, intersection) ==
    Filter(SetCol(SetCol(t, "Street", street), "Intersection", intersection),
           [i \in 1..NRows(t) |-> street[i] # Blank \/ intersection[i] # Blank])

\* pd.concat([df, street, intersection], axis=1): a new table, all rows kept.
Concat(t, street, intersection) ==
    SetCol(SetCol(t, "Street", street), "Intersection", intersection)

\* A table that already has a Street or an Intersection column would get a second
\* column of that name, which a set of column names cannot hold: the call is
\* modelled on tables without them.
make_streets_intersections_cols ==
    /\ budget > 0
    /\ {"Street", "Intersection"} \cap df.cols = {}
    /\ IF "Address" \notin df.cols
       THEN Raises("make_streets_intersections_cols", NoArgs, df, "AttributeError")
       ELSE LET address == Col(df, "Address")
                intersection == [i \in 1..NRows(df) |-> FillBlank(ExtractIntersection(address[i]))]
                street == [i \in 1..NRows(df) |-> FillBlank(ExtractStreet(address[i]))]
            IN  Returns("make_streets_intersections_cols", NoArgs, df,
                        Concat(df, street, intersection))

---------------------------------------------------------------------------
(* make_time_cols *)

IsLeap(y) == (y % 4 = 0 /\ y % 100 # 0) \/ y % 400 = 0
DaysIn(m, y) == IF m = 2 THEN (IF IsLeap(y) THEN 29 ELSE 28)
                ELSE IF m \in {4, 6, 9, 11} THEN 30 ELSE 31

RECURSIVE DaysBefore(_, _)
DaysBefore(m, y) == IF m <= 1 THEN 0 ELSE DaysIn(m - 1, y) + DaysBefore(m - 1, y)

\* The numbers a text spells make a timestamp.
ValidFields(f) ==
    /\ Len(f) = 5
    /\ f[2] \in 1..12 /\ f[3] \in 1..DaysIn(f[2], f[1])
    /\ f[4] \in 0..23 /\ f[5] \in 0..59

\* Variant of Parsable: only texts parse.
ParsableStringsOnly(c) == c.k = "str" /\ ValidFields(c.n)

\* pd.to_datetime raises for the whole column when one value does not parse;
\* datetimes, dates and missing values pass through it.
Parsable(c) ==
    \/ c.k \in {"datetime", "date", "nan", "nat"}
    \/ c.k = "str" /\ ValidFields(c.n)

\* pd.to_datetime on one value that parses (numbers are not modelled).
ToDatetime(c) ==
    CASE c.k = "str" -> Datetime(c.n)
      [] c.k = "datetime" -> c
      [] c.k = "date" -> Datetime(c.n \o <<0, 0>>)
      [] c.k \in {"nan", "nat"} -> NaT

\* The .dt accessors; a missing datetime gives a missing value.
DtYear(c) == IF c.k = "nat" THEN NaN ELSE Num(c.n[1])
DtMonth(c) == IF c.k = "nat" THEN NaN ELSE Num(c.n[2])
DtDate(c) == IF c.k = "nat" THEN NaT ELSE Date(SubSeq(c.n, 1, 3))
DtDayOfYear(c) == IF c.k = "nat" THEN NaN ELSE Num(DaysBefore(c.n[2], c.n[1]) + c.n[3])
DtHour(c) == IF c.k = "nat" THEN NaN ELSE Num(c.n[4])
DtMinute(c) == IF c.k = "nat" THEN NaN ELSE Num(c.n[5])

TimeCols == {"Year", "Month", "Day", "DayOfYear", "Hour", "Minute"}

\* Lines 36-42, for a timestamp column that is none of the derived columns: every
\* line then reads the column line 36 wrote.
Decompose(t, timestamp_column) ==
    LET n == NRows(t)
        t0 == SetCol(t, timestamp_column, [i \in 1..n |-> ToDatetime(t.rows[i][timestamp_column])])
        ts == Col(t0, timestamp_column)
        t1 == SetCol(t0, "Year", [i \in 1..n |-> DtYear(ts[i])])
        t2 == SetCol(t1, "Month", [i \in 1..n |-> DtMonth(ts[i])])
        t3 == SetCol(t2, "Day", [i \in 1..n |-> DtDate(ts[i])])
        t4 == SetCol(t3, "DayOfYear", [i \in 1..n |-> DtDayOfYear(ts[i])])
        t5 == SetCol(t4, "Hour", [i \in 1..n |-> DtHour(ts[i])])
    IN  SetCol(t5, "Minute", [i \in 1..n |-> DtMinute(ts[i])])

make_time_cols(timestamp_column) ==
    LET a == [NoArgs EXCEPT !.column = timestamp_column] IN
    /\ budget > 0
    /\ IF timestamp_column \notin df.cols
       THEN Raises("make_time_cols", a, df, "KeyError")
       ELSE IF \E i \in 1..NRows(df) : ~Parsable(df.rows[i][timestamp_column])
       THEN Raises("make_time_cols", a, df, "ValueError")
       ELSE Returns("make_time_cols", a, Decompose(df, timestamp_column),
                    Decompose(df, timestamp_column))

---------------------------------------------------------------------------
(* make_weekday_to_num *)

\* Variant of week_day_mapper: the week starts on Sunday.
week_day_mapper_sunday_first ==
    [Sunday |-> 0, Monday |-> 1, Tuesday |-> 2, Wednesday |-> 3, Thursday |-> 4,
     Friday |-> 5, Saturday |-> 6]

\* The dictionary of lines 59-60.
week_day_mapper ==
    [Monday |-> 0, Tuesday |-> 1, Wednesday |-> 2, Thursday |-> 3,
     Friday |-> 4, Saturday |-> 5, Sunday |-> 6]

\* Series.map(dict) on one value: NaN for a value that is no key.
MapWeekday(c) ==
    IF c.k = "str" /\ Len(c.s) = 1 /\ c.s[1] \in DOMAIN week_day_mapper
    THEN Num(week_day_mapper[c.s[1]])
    ELSE NaN

\* .astype("int64") raises when a value is missing; the assignment to
\* df["weekdayNumerical"] comes after it.
make_weekday_to_num(column) ==
    LET a == [NoArgs EXCEPT !.column = column] IN
    /\ budget > 0
    /\ IF column \notin df.cols
       THEN Raises("make_weekday_to_num", a, df, "KeyError")
       ELSE LET mapped == [i \in 1..NRows(df) |-> MapWeekday(df.rows[i][column])]
            IN  IF \E i \in 1..NRows(df) : IsNull(mapped[i])
                THEN Raises("make_weekday_to_num", a, df, "ValueError")
                ELSE Returns("make_weekday_to_num", a,
                             SetCol(df, "weekdayNumerical", mapped),
                             SetCol(df, "weekdayNumerical", mapped))

---------------------------------------------------------------------------
(* make_address_encoding_col *)

\* delimeter in record, for a delimeter that is one word of the model's texts.
Contains(c, delimeter) == \E i \in 1..Len(c.s) : c.s[i] = delimeter

\* `in` raises TypeError on a record that is no text (a missing value is a float).
make_address_encoding_col(delimeter, column) ==
    LET a == [NoArgs EXCEPT !.column = column, !.delimeter = delimeter] IN
    /\ budget > 0
    /\ IF column \notin df.cols
       THEN Raises("make_address_encoding_col", a, df, "KeyError")
       ELSE IF \E i \in 1..NRows(df) : df.rows[i][column].k # "str"
       THEN Raises("make_address_encoding_col", a, df, "TypeError")
       ELSE LET encoded == [i \in 1..NRows(df) |->
                               Num(IF Contains(df.rows[i][column], delimeter) THEN 1 ELSE 0)]
            IN  Returns("make_address_encoding_col", a,
                        SetCol(df, "address_encoded", encoded),
                        SetCol(df, "address_encoded", encoded))

---------------------------------------------------------------------------
(* make_seasons_col *)

\* Variant of SeasonDict: December falls in season 4.
SeasonDictDecemberLast == <<1, 1, 2, 2, 2, 3, 3, 3, 4, 4, 4, 4>>

\* The dictionary of lines 94-95, by month.
SeasonDict == <<1, 1, 2, 2, 2, 3, 3, 3, 4, 4, 4, 1>>

\* Series.map(dict) on one value: NaN for a value that is no key.
MapSeason(c) ==
    IF c.k = "int" /\ c.n[1] \in DOMAIN SeasonDict THEN Num(SeasonDict[c.n[1]]) ELSE NaN

make_seasons_col(column) ==
    LET a == [NoArgs EXCEPT !.column = column] IN
    /\ budget > 0
    /\ IF column \notin df.cols
       THEN Raises("make_seasons_col", a, df, "KeyError")
       ELSE LET copied == SetCol(df, "Season", Col(df, column))
                mapped == SetCol(copied, "Season",
                                 [i \in 1..NRows(df) |-> MapSeason(copied.rows[i]["Season"])])
            IN  Returns("make_seasons_col", a, mapped, mapped)

---------------------------------------------------------------------------
(* get_outlier_removed_col *)

\* Variant of InRange: the thresholds are kept.
InRangeInclusive(c, up_threshold, low_threshold) ==
    c.k = "int" /\ c.n[1] <= up_threshold /\ c.n[1] >= low_threshold

\* (df[column] < up_threshold) & (df[column] > low_threshold) on one value:
\* every comparison with a missing value is false.
InRange(c, up_threshold, low_threshold) ==
    c.k = "int" /\ c.n[1] < up_threshold /\ c.n[1] > low_threshold

\* Comparing a text or a date with a number raises TypeError.
get_outlier_removed_col(column, up_threshold, low_threshold) ==
    LET a == [NoArgs EXCEPT !.column = column, !.up = up_threshold, !.low = low_threshold] IN
    /\ budget > 0
    /\ IF column \notin df.cols
       THEN Raises("get_outlier_removed_col", a, df, "KeyError")
       ELSE IF \E i \in 1..NRows(df) : df.rows[i][column].k \notin {"int", "nan"}
       THEN Raises("get_outlier_removed_col", a, df, "TypeError")
       ELSE Returns("get_outlier_removed_col", a, df,
                    Filter(df, [i \in 1..NRows(df) |->
                                   InRange(df.rows[i][column], up_threshold, low_threshold)]))

---------------------------------------------------------------------------
(* get_count_table *)

\* The order of the model's one-word texts.
Alphabet == <<"A", "B", "C">>
Rank(w) == CHOOSE i \in 1..Len(Alphabet) : Alphabet[i] = w

CellLt(a, b) ==
    IF a.k = "int" THEN a.n[1] < b.n[1] ELSE Rank(a.s[1]) < Rank(b.s[1])

KeyLt(p, q) == CellLt(p[1], q[1]) \/ (p[1] = q[1] /\ CellLt(p[2], q[2]))

\* groupby sorts the group keys.
RECURSIVE Sorted(_)
Sorted(keys) ==
    IF keys = {} THEN <<>>
    ELSE LET k == CHOOSE x \in keys : \A y \in keys \ {x} : KeyLt(x, y)
         IN  <<k>> \o Sorted(keys \ {k})

KeyOf(row, category, time) == <<row[category], row[time]>>

\* groupby leaves out the rows with a missing value in a key (dropna=True).
GroupKeys(t, category, time) ==
    {KeyOf(t.rows[i], category, time) :
        i \in {j \in 1..NRows(t) : ~IsNull(t.rows[j][category]) /\ ~IsNull(t.rows[j][time])}}

\* Variant of SumCount: the group's first Count instead of the sum.
SumCountFirst(t, category, time, key, i) == 1

\* .agg('sum') of Count over the rows of one group.
RECURSIVE SumCount(_, _, _, _, _)
SumCount(t, category, time, key, i) ==
    IF i > NRows(t) THEN 0
    ELSE (IF KeyOf(t.rows[i], category, time) = key THEN t.rows[i]["Count"].n[1] ELSE 0)
         + SumCount(t, category, time, key, i + 1)

\* count_df[[category, time, 'Count']].groupby([category, time]).agg('sum').reset_index()
Grouped(t, category, time) ==
    LET keys == Sorted(GroupKeys(t, category, time))
    IN  Table({category, time, "Count"},
              [g \in 1..Len(keys) |->
                  [c \in {category, time, "Count"} |->
                      IF c = category THEN keys[g][1]
                      ELSE IF c = time THEN keys[g][2]
                      ELSE Num(SumCount(t, category, time, keys[g], 1))]])

\* count_df is the caller's object: the Count column is written to df itself,
\* before the columns are looked up.
get_count_table(category, time) ==
    LET a == [NoArgs EXCEPT !.column = category, !.time = time]
        count_df == SetCol(df, "Count", [i \in 1..NRows(df) |-> Num(1)])
    IN
    /\ budget > 0
    /\ IF ~({category, time} \subseteq count_df.cols)
       THEN Raises("get_count_table", a, count_df, "KeyError")
       ELSE Returns("get_count_table", a, count_df, Grouped(count_df, category, time))

---------------------------------------------------------------------------
(* get_cols_names_below_threshold *)

\* Series.unique(): the values in the order of their first appearance.
RECURSIVE Unique(_, _)
Unique(seq, i) ==
    IF i > Len(seq) THEN <<>>
    ELSE (IF \E j \in 1..(i - 1) : seq[j] = seq[i] THEN <<>> ELSE <<seq[i]>>)
         \o Unique(seq, i + 1)

get_cols_names_below_threshold(threshold) ==
    LET a == [NoArgs EXCEPT !.up = threshold] IN
    /\ budget > 0
    /\ IF ~({"Count", "Category"} \subseteq df.cols)
       THEN Raises("get_cols_names_below_threshold", a, df, "KeyError")
       ELSE LET below == Filter(df, [i \in 1..NRows(df) |->
                                       df.rows[i]["Count"].k = "int"
                                       /\ df.rows[i]["Count"].n[1] < threshold])
            IN  Ends("get_cols_names_below_threshold", a, df, NoTable,
                     Unique(Col(below, "Category"), 1), "")

---------------------------------------------------------------------------
(* get_nan_records *)

\* df.isnull().any(axis=1) on one row.
AnyNull(t, i) == \E c \in t.cols : IsNull(t.rows[i][c])

get_nan_records ==
    /\ budget > 0
    /\ Returns("get_nan_records", NoArgs, df,
               Filter(df, [i \in 1..NRows(df) |-> AnyNull(df, i)]))

---------------------------------------------------------------------------
(* get_true_pred_perc *)

\* Variant of Collisions: the last index is not compared.
RECURSIVE CollisionsSkipLast(_, _, _)
CollisionsSkipLast(p, a, i) ==
    IF i >= Len(a) THEN 0
    ELSE (IF a[i] = p[i] THEN 1 ELSE 0) + CollisionsSkipLast(p, a, i + 1)

\* The loop of lines 201-203 from index i on (1-based here).
RECURSIVE Collisions(_, _, _)
Collisions(p, a, i) ==
    IF i > Len(a) THEN 0
    ELSE (IF a[i] = p[i] THEN 1 ELSE 0) + Collisions(p, a, i + 1)

\* predictions[index] raises IndexError once index passes the end of predictions;
\* the division raises ZeroDivisionError for len(answers) = 0.  The float result
\* is kept as the pair <<collisions * 100, len(answers)>>.
get_true_pred_perc ==
    /\ budget > 0
    /\ op' = "get_true_pred_perc" /\ budget' = budget - 1
    /\ IF Len(predictions) < Len(answers)
       THEN err' = "IndexError" /\ UNCHANGED perc
       ELSE IF Len(answers) = 0
       THEN err' = "ZeroDivisionError" /\ UNCHANGED perc
       ELSE err' = "" /\ perc' = <<Collisions(predictions, answers, 1) * 100, Len(answers)>>
    /\ UNCHANGED <<df, pre, ret, names, args, predictions, answers>>

---------------------------------------------------------------------------
(* The caller *)

FreshTableOps == {"make_streets_intersections_cols", "get_outlier_removed_col",
                  "get_count_table", "get_nan_records"}

\* df = extractor.<method>(df, ...): the caller goes on with the returned table.
Rebind ==
    /\ budget > 0
    /\ op \in FreshTableOps /\ err = ""
    /\ op' = "rebind" /\ pre' = df /\ df' = ret
    /\ UNCHANGED <<ret, names, args, err, budget, predictions, answers, perc>>

---------------------------------------------------------------------------
(* The tables the caller builds *)

Tables(cols, rows, n) == {Table(cols, r) : r \in UNION {[1..m -> rows] : m \in 0..n}}

Row(dates, weekday, address, category, x) ==
    [c \in {"Dates", "DayOfWeek", "Address", "Category", "X"} |->
        CASE c = "Dates" -> dates
          [] c = "DayOfWeek" -> weekday
          [] c = "Address" -> address
          [] c = "Category" -> category
          [] c = "X" -> x]

Rows == {
    Row(TimeStr(<<2015, 5, 13, 23, 53>>), Str(<<"Wednesday">>),
        Str(<<"OAK", "ST", "/", "LAGUNA", "ST">>), Str(<<"B">>), Num(5)),
    Row(TimeStr(<<2016, 12, 31, 0, 0>>), Str(<<"Sunday">>),
        Str(<<"1500", "Block", "of", "LOMBARD", "ST">>), Str(<<"A">>), Num(0)),
    Row(TimeStr(<<2015, 2, 29, 10, 30>>), Str(<<"Monday">>),
        Str(<<"100", "MAIN", "ST">>), Str(<<"A">>), Num(10)),
    Row(TimeStr(<<2015, 1, 6, 12, 0>>), Str(<<"Funday">>),
        Str(<<"OAK", "ST", "/", "LAGUNA", "ST">>), Str(<<"A">>), Num(13)),
    Row(TimeStr(<<2015, 9, 1, 8, 15>>), Str(<<"Tuesday">>),
        Str(<<"100", "MAIN", "ST">>), NaN, NaN) }

Idle(t, p, a, b) ==
    /\ df = t /\ pre = t /\ ret = NoTable /\ names = <<>> /\ op = "none"
    /\ args = NoArgs /\ err = "" /\ budget = b
    /\ predictions = p /\ answers = a /\ perc = <<0, 1>>

Init == \E t \in Tables({"Dates", "DayOfWeek", "Address", "Category", "X"}, Rows, MaxRows) :
            Idle(t, <<>>, <<>>, MaxCalls)

Next ==
    \/ make_streets_intersections_cols
    \/ \E c \in {"Dates"} : make_time_cols(c)
    \/ \E c \in {"DayOfWeek"} : make_weekday_to_num(c)
    \/ \E d \in {"/"}, c \in {"Address", "Street"} : make_address_encoding_col(d, c)
    \/ \E c \in {"Month", "X"} : make_seasons_col(c)
    \/ \E up \in {5, 10}, low \in {0} : get_outlier_removed_col("X", up, low)
    \/ \E t \in {"X", "Hour"} : get_count_table("Category", t)
    \/ \E th \in {2} : get_cols_names_below_threshold(th)
    \/ get_nan_records
    \/ Rebind

Spec == Init /\ [][Next]_vars

\* get_count_table on tables of a category and a day column, called once.
CountRows == {[c \in {"Category", "Day"} |-> IF c = "Category" THEN k ELSE d] :
                 k \in {Str(<<"A">>), Str(<<"B">>), NaN}, d \in {Num(1), Num(2), NaN}}

InitCount == \E t \in Tables({"Category", "Day"}, CountRows, MaxCountRows) :
                 Idle(t, <<>>, <<>>, 1)
NextCount == get_count_table("Category", "Day")
SpecCount == InitCount /\ [][NextCount]_vars

\* get_outlier_removed_col on tables of one numeric column, called once.
OutlierRows == {[c \in {"X"} |-> x] : x \in {Num(-1), Num(0), Num(5), Num(10), Num(11), NaN}}

InitOutlier == \E t \in Tables({"X"}, OutlierRows, MaxOutlierRows) : Idle(t, <<>>, <<>>, 1)
NextOutlier == \E up \in {5, 10}, low \in {0} : get_outlier_removed_col("X", up, low)
SpecOutlier == InitOutlier /\ [][NextOutlier]_vars

\* make_seasons_col on tables of a month column, called once.
SeasonRows == {[c \in {"Month"} |-> m] : m \in {Num(i) : i \in 0..13} \cup {NaN}}

InitSeason == \E t \in Tables({"Month"}, SeasonRows, MaxSeasonRows) : Idle(t, <<>>, <<>>, 1)
NextSeason == make_seasons_col("Month")
SpecSeason == InitSeason /\ [][NextSeason]_vars

\* make_weekday_to_num on tables of a weekday column, called once.
WeekdayRows == {[c \in {"DayOfWeek"} |-> w] :
                   w \in {Str(<<d>>) : d \in DOMAIN week_day_mapper \cup {"Funday"}} \cup {NaN}}

InitWeekday == \E t \in Tables({"DayOfWeek"}, WeekdayRows, MaxWeekdayRows) :
                   Idle(t, <<>>, <<>>, 1)
NextWeekday == make_weekday_to_num("DayOfWeek")
SpecWeekday == InitWeekday /\ [][NextWeekday]_vars

\* get_true_pred_perc on two sequences of labels, called once.
Labels(n) == UNION {[1..m -> {0, 1}] : m \in 0..n}

InitPerc == \E p \in Labels(MaxLen), a \in Labels(MaxLen) : Idle(NoTable, p, a, 1)
NextPerc == get_true_pred_perc
SpecPerc == InitPerc /\ [][NextPerc]_vars

---------------------------------------------------------------------------
(* Properties *)

\* a[i..] is a sub-sequence of b[j..].
RECURSIVE SubSeqFrom(_, _, _, _)
SubSeqFrom(a, b, i, j) ==
    IF i > Len(a) THEN TRUE
    ELSE IF j > Len(b) THEN FALSE
    ELSE IF a[i] = b[j] THEN SubSeqFrom(a, b, i + 1, j + 1)
    ELSE SubSeqFrom(a, b, i, j + 1)

IsSubSeq(a, b) == SubSeqFrom(a, b, 1, 1)

RowKeepingOps == {"make_streets_intersections_cols", "make_time_cols", "make_weekday_to_num",
                  "make_address_encoding_col", "make_seasons_col"}
FilterOps == {"get_outlier_removed_col", "get_nan_records"}

\* The (category, time) pairs of the rows of the table passed to the last call,
\* and those among them with no missing value.
PairOf(i) == <<pre.rows[i][args.column], pre.rows[i][args.time]>>
HasKey(i) == ~IsNull(PairOf(i)[1]) /\ ~IsNull(PairOf(i)[2])
InputPairs == {PairOf(i) : i \in 1..NRows(pre)}
InputKeys == {PairOf(i) : i \in {j \in 1..NRows(pre) : HasKey(j)}}
Occurrences(p) == Cardinality({i \in 1..NRows(pre) : PairOf(i) = p})
RetPair(g) == <<ret.rows[g][args.column], ret.rows[g][args.time]>>

RECURSIVE CountSum(_)
CountSum(g) == IF g > NRows(ret) THEN 0 ELSE ret.rows[g]["Count"].n[1] + CountSum(g + 1)

\* C1 as stated: a returned table has as many rows as the table passed in, the
\* count table included; outlier removal and NaN-row selection return a
\* sub-sequence of the input rows.
C1_RowCountAsClaimed ==
    err = "" =>
        /\ op \in RowKeepingOps \cup {"get_count_table"} => NRows(ret) = NRows(pre)
        /\ op \in FilterOps => IsSubSeq(ret.rows, pre.rows)

\* C1 (amended): street/intersection extraction, time decomposition, weekday
\* mapping, address encoding and season mapping return as many rows as they were
\* passed; outlier removal and NaN-row selection return a sub-sequence of the
\* input rows; the count table has one row per distinct (category, time) pair of
\* non-missing values, so at most as many rows as its input.
C1_RowCount ==
    err = "" =>
        /\ op \in RowKeepingOps => NRows(ret) = NRows(pre)
        /\ op \in FilterOps => IsSubSeq(ret.rows, pre.rows)
        /\ op = "get_count_table" =>
              /\ NRows(ret) = Cardinality(InputKeys)
              /\ NRows(ret) <= NRows(pre)

\* C1 witness: a count table with fewer rows than its input.
C1_Witness ==
    /\ op = "get_count_table" /\ err = ""
    /\ NRows(ret) > 0 /\ NRows(ret) < NRows(pre)

\* C2 as stated: after a call that failed, the caller's table has the columns and
\* values it had before the call.
C2_NoPartialResult == (err # "" /\ op # "get_true_pred_perc") => df = pre

\* C3 as stated: the count table has the columns {category, time, Count} and one
\* row per distinct (category, time) pair of the input, Count the number of input
\* rows with that pair, the Counts summing to the number of input rows, the rows
\* in the order of (category, time).
C3_CountTableAsClaimed ==
    (op = "get_count_table" /\ err = "") =>
        /\ ret.cols = {args.column, args.time, "Count"}
        /\ \A p \in InputPairs :
              Cardinality({g \in 1..NRows(ret) : RetPair(g) = p}) = 1
        /\ \A g \in 1..NRows(ret) :
              /\ RetPair(g) \in InputPairs
              /\ ret.rows[g]["Count"] = Num(Occurrences(RetPair(g)))
        /\ CountSum(1) = NRows(pre)
        /\ \A g, h \in 1..NRows(ret) : g < h => KeyLt(RetPair(g), RetPair(h))

\* C3 (amended): for category and time two different columns of the input, neither
\* of them Count, the count table has the columns {category, time, Count} and one
\* row per distinct (category, time) pair of the input rows that have no missing
\* value in either column, Count the number of input rows with that pair, the
\* Counts summing to the number of those rows, the rows in the order of
\* (category, time).
C3_CountTable ==
    (op = "get_count_table" /\ err = "") =>
        /\ ret.cols = {args.column, args.time, "Count"}
        /\ \A p \in InputKeys :
              Cardinality({g \in 1..NRows(ret) : RetPair(g) = p}) = 1
        /\ \A g \in 1..NRows(ret) :
              /\ RetPair(g) \in InputKeys
              /\ ret.rows[g]["Count"] = Num(Occurrences(RetPair(g)))
        /\ CountSum(1) = Cardinality({i \in 1..NRows(pre) : HasKey(i)})
        /\ \A g, h \in 1..NRows(ret) : g < h => KeyLt(RetPair(g), RetPair(h))

\* C3 witness: [(A,1),(A,1),(B,1)] gives [(A,1,2),(B,1,1)].
C3_Witness ==
    /\ op = "get_count_table" /\ err = ""
    /\ [i \in 1..NRows(pre) |-> PairOf(i)] =
          << <<Str(<<"A">>), Num(1)>>, <<Str(<<"A">>), Num(1)>>, <<Str(<<"B">>), Num(1)>> >>
    /\ [g \in 1..NRows(ret) |-> <<RetPair(g)[1], RetPair(g)[2], ret.rows[g]["Count"]>>] =
          << <<Str(<<"A">>), Num(1), Num(2)>>, <<Str(<<"B">>), Num(1), Num(1)>> >>

StrictlyBetween(c) == c.k = "int" /\ args.low < c.n[1] /\ c.n[1] < args.up

ClaimedSeason(m) ==
    CASE m \in {12, 1, 2} -> 1
      [] m \in {3, 4, 5} -> 2
      [] m \in {6, 7, 8} -> 3
      [] m \in {9, 10, 11} -> 4

\* C5: make_seasons_col does not fail on a table that has the month column, and
\* sets Season in every row: 12,1,2 -> 1; 3,4,5 -> 2; 6,7,8 -> 3; 9,10,11 -> 4,
\* and a missing value for a month outside 1..12.
C5_SeasonMapping ==
    (op = "make_seasons_col" /\ args.column \in pre.cols) =>
        /\ err = ""
        /\ NRows(df) = NRows(pre)
        /\ \A i \in 1..NRows(pre) :
              LET m == pre.rows[i][args.column]
                  season == df.rows[i]["Season"]
              IN  IF m.k = "int" /\ m.n[1] \in 1..12
                  THEN season = Num(ClaimedSeason(m.n[1])) /\ season.n[1] \in 1..4
                  ELSE season = NaN

\* C5 witness: a December row with Season 1 beside a month-13 row with a missing
\* Season.
C5_Witness ==
    /\ op = "make_seasons_col" /\ err = ""
    /\ \E i, j \in 1..NRows(df) :
          /\ pre.rows[i][args.column] = Num(12) /\ df.rows[i]["Season"] = Num(1)
          /\ pre.rows[j][args.column] = Num(13) /\ df.rows[j]["Season"] = NaN

Calendar == <<"Monday", "Tuesday", "Wednesday", "Thursday", "Friday", "Saturday", "Sunday">>
IsWeekday(c) == c.k = "str" /\ Len(c.s) = 1 /\ \E d \in 1..7 : Calendar[d] = c.s[1]
DayNumber(c) == (CHOOSE d \in 1..7 : Calendar[d] = c.s[1]) - 1

\* C6: the mapper takes Monday..Sunday one-to-one onto 0..6 in calendar order;
\* make_weekday_to_num writes those numbers to weekdayNumerical, and fails,
\* writing nothing, when a row holds anything else.
C6_WeekdayMapping ==
    /\ DOMAIN week_day_mapper = {Calendar[d] : d \in 1..7}
    /\ \A d \in 1..7 : week_day_mapper[Calendar[d]] = d - 1
    /\ (op = "make_weekday_to_num" /\ args.column \in pre.cols) =>
          IF \A i \in 1..NRows(pre) : IsWeekday(pre.rows[i][args.column])
          THEN /\ err = ""
               /\ df.cols = pre.cols \cup {"weekdayNumerical"}
               /\ NRows(df) = NRows(pre)
               /\ \A i \in 1..NRows(pre) :
                     /\ df.rows[i]["weekdayNumerical"] = Num(DayNumber(pre.rows[i][args.column]))
                     /\ \A c \in pre.cols \ {"weekdayNumerical"} : df.rows[i][c] = pre.rows[i][c]
          ELSE err # "" /\ df = pre

\* C6 witness: a Monday row and a Sunday row mapped to 0 and 6.
C6_Witness ==
    /\ op = "make_weekday_to_num" /\ err = ""
    /\ \E i, j \in 1..NRows(df) :
          /\ pre.rows[i][args.column] = Str(<<"Monday">>)
          /\ df.rows[i]["weekdayNumerical"] = Num(0)
          /\ pre.rows[j][args.column] = Str(<<"Sunday">>)
          /\ df.rows[j]["weekdayNumerical"] = Num(6)

Matching == {i \in 1..Len(answers) : predictions[i] = answers[i]}

\* C7: for two sequences of the same length n > 0, get_true_pred_perc returns
\* 100 * (number of positions where they agree) / n, a value in 0..100; for two
\* empty sequences it fails with a division by zero.
C7_Accuracy ==
    (op = "get_true_pred_perc" /\ Len(predictions) = Len(answers)) =>
        IF Len(answers) > 0
        THEN /\ err = ""
             /\ perc[2] > 0
             /\ perc[1] * Len(answers) = 100 * Cardinality(Matching) * perc[2]
             /\ 0 <= perc[1] /\ perc[1] <= 100 * perc[2]
        ELSE err = "ZeroDivisionError"

\* C7 witness: [1,0,1,1] against [1,1,1,0] gives 50.
C7_Witness ==
    /\ op = "get_true_pred_perc" /\ err = ""
    /\ predictions = <<1, 0, 1, 1>> /\ answers = <<1, 1, 1, 0>>
    /\ perc[1] = 50 * perc[2]

\* A table make_time_cols has already decomposed on timestamp_column.
Decomposed(t, timestamp_column) ==
    /\ {timestamp_column} \cup TimeCols \subseteq t.cols
    /\ \A i \in 1..NRows(t) : t.rows[i][timestamp_column].k \in {"datetime", "nat"}

C10_CountTablePure == (op = "get_count_table" /\ err = "") => df = pre

====
